---- MODULE Spec2Model ----
(***************************************************************************)
(* Model of the crawl engine of solana-transaction-crawler                 *)
(* (src/src/crawler.rs, src/src/filters/*.rs): the builder methods, the    *)
(* signature paginator, the bounded-concurrency transaction fetcher, the   *)
(* transaction and instruction filters, instruction flattening and account *)
(* extraction; and of the extraction of get_cmv1_mints and get_cmv2_mints  *)
(* (src/src/candy_machine/*.rs).                                           *)
(*                                                                         *)
(* Encoding of the data:                                                   *)
(*   - a signature string of the gateway is an integer: history[i] = i is  *)
(*     a well-formed signature string, history[i] = -i is a string that    *)
(*     Signature::from_str rejects; a parsed Signature is the positive     *)
(*     integer, and before = None is NoSig;                                *)
(*   - a transaction, an instruction and a filter are records whose `kind` *)
(*     (or `enc`, `msg`) field is the enum variant of the source.          *)
(***************************************************************************)
EXTENDS Integers, Sequences, FiniteSets, TLC

\* ------------------------------------------------------------------ bounds

\* Page size asked of the gateway. The source asks for 1000 (limit = Some(1000))
\* and matches the page length against the same 1000; the model keeps the two
\* equal and scales them so that full, short and empty pages all occur.
PageLimit == 2
\* Longest history, in pages: a history has at most MaxPages full pages plus one entry.
MaxPages == 2

MaxHist == MaxPages * PageLimit + 1
\* Most signatures handed to the fetcher.
MaxSigs == 2
\* Largest concurrency limit set by set_concurrency_limit, besides the default.
MaxK == 2
\* Most transactions handed to the filters.
MaxTx == 2
\* Most filters and rules registered on a crawler by the builder methods.
MaxConfig == 3

\* ------------------------------------------------------- program constants

\* `if retries < 10` of the paginator
MaxEmptyRetries == 10

\* Fixed::from_millis(500).take(10): the delays retry() may sleep between attempts
FetchRetryDelays == 10
\* constants.rs: DEFAULT_CONCURRENCY_LIMIT
DEFAULT_CONCURRENCY_LIMIT == 1000

NoSig == 0

VARIABLES
    \* RPC gateway
    history,        \* signature strings of the address, newest first
    ledger,         \* the transaction record of each signature
    \* struct Crawler
    tx_filters,
    ix_filters,
    ix_or_filters,
    account_indices,
    concurrency_limit,
    \* Crawler::run
    pc,             \* "build" before run() is called; position of run(): "paginate",
                    \* "collect", "fetch", "filter", "extract", "done";
                    \* of get_cmv1_mints / get_cmv2_mints: "cmv1: filter", "cmv1: extract",
                    \* "cmv2: filter", "cmv2: extract", "done"
    outcome,        \* "running", "Ok", "ClientError", "SignatureParseFailed", or the
                    \* message of the panic that ended run(): "panic: .."
    \* get_all_signatures_for_id
    before,         \* cursor of the next request
    signatures,     \* entries collected so far; the Vec<Signature> once collected
    retries,        \* u8 counter of empty pages
    calls,          \* log of the listing requests issued: <<[before, ok, sigs]>>
    \* get_transactions_from_signatures
    permits,        \* permits available in the semaphore
    tx_tasks,       \* the spawned tasks, in spawn order: [sig, tries, res]
    joined,         \* number of tasks the second loop has awaited
    transactions,
    errors,
    \* filtering and extraction of run()
    filtered_transactions,
    workers,        \* one per filtered transaction: [stage, ixs, k]
    ix_accounts     \* the Mutex<HashMap<String, HashSet<String>>>

gatewayVars == <<history, ledger>>
configVars == <<tx_filters, ix_filters, ix_or_filters, account_indices, concurrency_limit>>
pagVars == <<before, retries, calls>>
fetchVars == <<permits, tx_tasks, joined, transactions, errors>>
extractVars == <<filtered_transactions, workers, ix_accounts>>

vars == <<history, ledger, tx_filters, ix_filters, ix_or_filters, account_indices,
          concurrency_limit, pc, outcome, before, signatures, retries, calls, permits,
          tx_tasks, joined, transactions, errors, filtered_transactions, workers,
          ix_accounts>>

\* --------------------------------------------------------------- helpers

Min(a, b) == IF a < b THEN a ELSE b

Range(s) == {s[i] : i \in DOMAIN s}

Last(s) == s[Len(s)]

\* Signature::from_str: a well-formed string parses to the signature it names.
ParsesOk(s) == s > 0

from_str(s) == s

\* Position in the history of the entry whose signature is sig (0 for no cursor).
PositionOf(h, sig) ==
    IF sig = NoSig THEN 0
    ELSE CHOOSE i \in 1..Len(h) : ParsesOk(h[i]) /\ from_str(h[i]) = sig

\* -------------------------------------------------------------- data model

\* Option<T>: None is the empty sequence, Some(x) the one-element sequence.
None == <<>>
Some(x) == <<x>>
IsSome(o) == o # <<>>
Unwrap(o) == o[1]

\* An account address is a String that may be trimmed: a sequence of characters.
\* Program ids, instruction data and rule names are only compared: strings.

\* UiInstruction::Compiled
CompiledIx == [kind |-> "Compiled"]
\* UiInstruction::Parsed(UiParsedInstruction::PartiallyDecoded(..))
PartiallyDecoded(p, accts, d) ==
    [kind |-> "PartiallyDecoded", program_id |-> p, accounts |-> accts, data |-> d]
\* UiInstruction::Parsed(UiParsedInstruction::Parsed(..)): `parsed` is the JSON tree, with
\* an optional "type" member and the members of its "info" object.
ParsedIx(p, type, info) ==
    [kind |-> "Parsed", program_id |-> p, parsed |-> [type |-> type, info |-> info]]

\* serde_json values found under "info"
JString(s) == [json |-> "String", s |-> s]
JNumber == [json |-> "Number"]

\* UiTransactionStatusMeta: err, log_messages and inner_instructions are Options;
\* a log line is reduced to whether it contains CMV2_BOT_TAX_MSG.
Meta(err, logs, inner) == [err |-> err, log_messages |-> logs, inner_instructions |-> inner]

\* EncodedConfirmedTransactionWithStatusMeta. enc: "Json" or another EncodedTransaction
\* variant; msg: "Parsed" or "Raw"; account_keys: [pubkey, signer] (a raw message
\* lists the keys alone); meta: Option<Meta>.
Tx(sig, enc, msg, keys, ixs, meta) ==
    [sig |-> sig, enc |-> enc, msg |-> msg, account_keys |-> keys,
     instructions |-> ixs, meta |-> meta]

\* IxAccount::unparsed / IxAccount::parsed
unparsed(name, index) == [name |-> name, index |-> Some(index)]
parsed(name) == [name |-> name, index |-> None]

\* ----------------------------------------------------- transaction filters

LineHasBotTax(m) == m = "bot tax"

PubkeyIn(tx, id) == \E i \in DOMAIN tx.account_keys : tx.account_keys[i].pubkey = id

NoPanic == "none"

\* The panic! of TxFilter::filter, if it panics on tx
TxFilterPanic(f, tx) ==
    CASE f.kind \in {"Cmv2TxFilter", "TxHasProgramId"} ->
            IF tx.enc # "Json" THEN "panic: not Json encoded" ELSE NoPanic
      [] f.kind = "TxHasSigner" ->
            IF tx.enc # "Json" THEN "panic: not Json encoded"
            ELSE IF tx.msg = "Raw" THEN "panic: Not a parsed tx message"
            ELSE NoPanic
      [] OTHER -> NoPanic

\* TxFilter::filter of each filter type, where it returns
TxFilter(f, tx) ==
    CASE f.kind = "SuccessfulTxFilter" ->
            IF IsSome(tx.meta) THEN ~IsSome(Unwrap(tx.meta).err) ELSE FALSE
      [] f.kind = "CmV2BotTaxTxFilter" ->
            IF IsSome(tx.meta)
            THEN IF IsSome(Unwrap(tx.meta).log_messages)
                 THEN LET messages == Unwrap(Unwrap(tx.meta).log_messages)
                      IN  ~\E i \in DOMAIN messages : LineHasBotTax(messages[i])
                 ELSE TRUE
            ELSE TRUE
      [] f.kind = "Cmv2TxFilter" -> PubkeyIn(tx, "CMV2")
      [] f.kind = "TxHasProgramId" -> PubkeyIn(tx, f.program_id)
      [] f.kind = "TxHasSigner" ->
            \E i \in DOMAIN tx.account_keys :
                tx.account_keys[i].pubkey = f.address /\ tx.account_keys[i].signer

\* self.tx_filters.iter().all(|filter| filter.filter(tx)): in order, stopping at the
\* first filter that returns false: "pass", "reject", or the panic of a filter
\* evaluated on the way.
RECURSIVE TxFiltersAllFrom(_, _, _)
TxFiltersAllFrom(fs, tx, i) ==
    IF i > Len(fs) THEN "pass"
    ELSE IF TxFilterPanic(fs[i], tx) # NoPanic THEN TxFilterPanic(fs[i], tx)
    ELSE IF ~TxFilter(fs[i], tx) THEN "reject"
    ELSE TxFiltersAllFrom(fs, tx, i + 1)

\* Mutant of TxFiltersAll: a transaction passes when some filter accepts it.
TxFiltersAny(fs, tx) ==
    IF \E i \in DOMAIN fs : TxFilterPanic(fs[i], tx) # NoPanic
    THEN "panic: not Json encoded"
    ELSE IF fs = <<>> \/ \E i \in DOMAIN fs : TxFilter(fs[i], tx) THEN "pass" ELSE "reject"

TxFiltersAll(fs, tx) == TxFiltersAllFrom(fs, tx, 1)

\* Mutant of FilterTransactionsOf: the verdict of the filters is not applied.
FilterTransactionsOfKeepsAll(fs, txs) ==
    LET verdict == [i \in DOMAIN txs |-> TxFiltersAll(fs, txs[i])]
        panics == {i \in DOMAIN txs : verdict[i] \notin {"pass", "reject"}}
    IN  [panic |-> IF panics = {} THEN NoPanic
                   ELSE verdict[CHOOSE i \in panics : \A j \in panics : i <= j],
         kept |-> txs]

\* transactions.iter().filter(..).collect(): the transactions kept, in order, or the
\* panic of the first transaction on which a filter panics.
FilterTransactionsOf(fs, txs) ==
    LET verdict == [i \in DOMAIN txs |-> TxFiltersAll(fs, txs[i])]
        panics == {i \in DOMAIN txs : verdict[i] \notin {"pass", "reject"}}
    IN  [panic |-> IF panics = {} THEN NoPanic
                   ELSE verdict[CHOOSE i \in panics : \A j \in panics : i <= j],
         kept |-> SelectSeq(txs, LAMBDA tx : TxFiltersAll(fs, tx) = "pass")]

\* ----------------------------------------------------- instruction filters

NumberAccounts(cmp, n) == [kind |-> "IxNumberAccounts", cmp |-> cmp, n |-> n]
ProgramIdFilter(p) == [kind |-> "IxProgramIdFilter", program_id |-> p]
DataFilter(d) == [kind |-> "IxDataFilter", data |-> d]
MintToFilter == [kind |-> "IxMintToFilter"]
HasAccountFilter(a) == [kind |-> "IxHasAccountFilter", account |-> a]
HasAccountAtIndexFilter(a, i) == [kind |-> "IxHasAccountAtIndexFilter", account |-> a, index |-> i]

\* IxFilter::filter of each filter type, on a UiParsedInstruction
IxFilter(f, ix) ==
    CASE f.kind = "IxNumberAccounts" ->
            IF ix.kind = "PartiallyDecoded"
            THEN CASE f.cmp = "LessThan" -> Len(ix.accounts) < f.n
                   [] f.cmp = "LessThanOrEqual" -> Len(ix.accounts) <= f.n
                   [] f.cmp = "EqualTo" -> Len(ix.accounts) = f.n
                   [] f.cmp = "GreaterThan" -> Len(ix.accounts) > f.n
                   [] f.cmp = "GreaterThanOrEqual" -> Len(ix.accounts) >= f.n
            ELSE TRUE
      [] f.kind = "IxProgramIdFilter" -> ix.program_id = f.program_id
      [] f.kind = "IxDataFilter" ->
            IF ix.kind = "PartiallyDecoded" THEN ix.data = f.data ELSE FALSE
      [] f.kind = "IxMintToFilter" ->
            IF ix.kind = "Parsed"
            THEN IF IsSome(ix.parsed.type) THEN Unwrap(ix.parsed.type) = "mintTo" ELSE FALSE
            ELSE FALSE
      [] f.kind = "IxHasAccountFilter" ->
            IF ix.kind = "Parsed" THEN TRUE
            ELSE \E i \in DOMAIN ix.accounts : ix.accounts[i] = f.account
      [] f.kind = "IxHasAccountAtIndexFilter" ->
            IF ix.kind = "Parsed" THEN FALSE
            ELSE IF f.index + 1 \in DOMAIN ix.accounts
                 THEN ix.accounts[f.index + 1] = f.account
                 ELSE FALSE

\* Mutant of IxSurvives: an empty alternative group rejects every instruction.
IxSurvivesNoEscape(required, alternative, ix) ==
    /\ \A i \in DOMAIN required : IxFilter(required[i], ix)
    /\ \E i \in DOMAIN alternative : IxFilter(alternative[i], ix)

\* The two .filter(..) calls of run() on one instruction: every filter of ix_filters, and
\* any filter of ix_or_filters unless that group is empty.
IxSurvives(required, alternative, ix) ==
    LET or_filters == alternative = <<>>
    IN  /\ \A i \in DOMAIN required : IxFilter(required[i], ix)
        /\ (or_filters \/ \E i \in DOMAIN alternative : IxFilter(alternative[i], ix))

\* ---------------------------------------------- flattening and extraction

RECURSIVE Concat(_)
Concat(ss) == IF ss = <<>> THEN <<>> ELSE Head(ss) \o Concat(Tail(ss))

\* inner_instructions.iter().flat_map(|ix| &ix.instructions)
InnerOf(tx) ==
    IF IsSome(tx.meta) /\ IsSome(Unwrap(tx.meta).inner_instructions)
    THEN LET groups == Unwrap(Unwrap(tx.meta).inner_instructions)
         IN  Concat([g \in DOMAIN groups |-> groups[g].instructions])
    ELSE <<>>

\* Mutant of Flatten: the inner instructions are put before the top-level ones.
FlattenInnerFirst(tx) ==
    IF tx.enc # "Json"
    THEN [panic |-> "panic: Not JSON encoded transaction", ixs |-> <<>>]
    ELSE IF tx.msg = "Raw"
    THEN [panic |-> "panic: not a parsed message", ixs |-> <<>>]
    ELSE IF \E i \in DOMAIN (tx.instructions \o InnerOf(tx)) :
                (tx.instructions \o InnerOf(tx))[i].kind = "Compiled"
    THEN [panic |-> "panic: not a parsed instruction", ixs |-> <<>>]
    ELSE [panic |-> NoPanic, ixs |-> InnerOf(tx) \o tx.instructions]

\* Mutant of Flatten: the inner instructions are left out.
FlattenTopLevelOnly(tx) ==
    IF tx.enc # "Json"
    THEN [panic |-> "panic: Not JSON encoded transaction", ixs |-> <<>>]
    ELSE IF tx.msg = "Raw"
    THEN [panic |-> "panic: not a parsed message", ixs |-> <<>>]
    ELSE IF \E i \in DOMAIN tx.instructions : tx.instructions[i].kind = "Compiled"
    THEN [panic |-> "panic: not a parsed instruction", ixs |-> <<>>]
    ELSE [panic |-> NoPanic, ixs |-> tx.instructions]

\* The `instructions` vector of one transaction: the top-level instructions, then the
\* inner ones; the three panic! of the matches when something is not in parsed form.
Flatten(tx) ==
    IF tx.enc # "Json"
    THEN [panic |-> "panic: Not JSON encoded transaction", ixs |-> <<>>]
    ELSE IF tx.msg = "Raw"
    THEN [panic |-> "panic: not a parsed message", ixs |-> <<>>]
    ELSE IF \E i \in DOMAIN tx.instructions : tx.instructions[i].kind = "Compiled"
    THEN [panic |-> "panic: not a parsed instruction", ixs |-> <<>>]
    ELSE IF \E i \in DOMAIN InnerOf(tx) : InnerOf(tx)[i].kind = "Compiled"
    THEN [panic |-> "panic: not a parsed instruction", ixs |-> <<>>]
    ELSE [panic |-> NoPanic, ixs |-> tx.instructions \o InnerOf(tx)]

\* Mutant of FilteredInstructions: the instruction filters are not applied.
FilteredInstructionsUnfiltered(required, alternative, ixs) == ixs

\* filtered_instructions of one transaction
FilteredInstructions(required, alternative, ixs) ==
    SelectSeq(ixs, LAMBDA ix : IxSurvives(required, alternative, ix))

\* str::trim_matches(c): strip every leading and trailing c
RECURSIVE TrimStart(_, _)
TrimStart(s, c) == IF s # <<>> /\ Head(s) = c THEN TrimStart(Tail(s), c) ELSE s
RECURSIVE TrimEnd(_, _)
TrimEnd(s, c) ==
    IF s # <<>> /\ s[Len(s)] = c THEN TrimEnd(SubSeq(s, 1, Len(s) - 1), c) ELSE s
trim_matches(s, c) == TrimEnd(TrimStart(s, c), c)

\* Mutant of ExtractOne: a structured-field rule reads account 0 of a positional
\* instruction, and a positional rule reads "mint" of a structured one.
ExtractOneAcrossShapes(ix, a) ==
    IF ix.kind = "PartiallyDecoded"
    THEN IF ix.accounts # <<>>
         THEN [panic |-> NoPanic, insert |-> Some([label |-> a.name, address |-> ix.accounts[1]])]
         ELSE [panic |-> NoPanic, insert |-> None]
    ELSE IF "mint" \in DOMAIN ix.parsed.info /\ ix.parsed.info["mint"].json = "String"
         THEN [panic |-> NoPanic,
               insert |-> Some([label |-> a.name, address |-> ix.parsed.info["mint"].s])]
         ELSE [panic |-> NoPanic, insert |-> None]

\* The body of `for a in self.account_indices` for one instruction and one rule: whether
\* it panics, and the (label, address) it inserts, if any.
ExtractOne(ix, a) ==
    LET nothing == [panic |-> NoPanic, insert |-> None]
    IN  IF ix.kind = "PartiallyDecoded"
        THEN IF IsSome(a.index)
             THEN IF Unwrap(a.index) + 1 \in DOMAIN ix.accounts
                  THEN [panic |-> NoPanic,
                        insert |-> Some([label |-> a.name,
                                         address |-> ix.accounts[Unwrap(a.index) + 1]])]
                  ELSE [panic |-> "panic: index out of bounds",       \* ix.accounts[index]
                        insert |-> None]
             ELSE nothing
        ELSE IF a.index = None
             THEN IF a.name \in DOMAIN ix.parsed.info           \* pointer("/info/<name>")
                  THEN LET address == ix.parsed.info[a.name]
                       IN  IF address.json = "String"
                           THEN [panic |-> NoPanic,
                                 insert |-> Some([label |-> a.name,
                                                  address |-> trim_matches(address.s, "\\")])]
                           ELSE [panic |-> "panic: unwrap on None",    \* as_str().unwrap()
                                 insert |-> None]
                  ELSE nothing
             ELSE nothing

\* Mutant of Insert: the set of the label is written without reading it (a lost update).
InsertOverwriting(m, label, address) ==
    [l \in DOMAIN m \cup {label} |-> IF l = label THEN {address} ELSE m[l]]

\* Mutant of Insert: only the first address inserted under a label is kept.
InsertFirstOnly(m, label, address) ==
    IF label \in DOMAIN m THEN m ELSE (label :> {address}) @@ m

\* entry(label).or_insert_with(HashSet::new).insert(address)
Insert(m, label, address) ==
    IF label \in DOMAIN m
    THEN [m EXCEPT ![label] = @ \cup {address}]
    ELSE (label :> {address}) @@ m

\* ---------------------------------------------------------------- gateway

\* The page a gateway that honours the cursor returns: up to PageLimit entries older than `b`.
GatewayPage(h, b) ==
    LET start == PositionOf(h, b)
    IN  SubSeq(h, start + 1, Min(start + PageLimit, Len(h)))

\* What one get_signatures_for_address_with_config call can return: the page, a
\* premature empty page (backend inconsistency), or a client error.
ListResponses(h, b) ==
    { [ok |-> TRUE,  sigs |-> GatewayPage(h, b)],
      [ok |-> TRUE,  sigs |-> <<>>],
      [ok |-> FALSE, sigs |-> <<>>] }

\* ------------------------------------------- get_all_signatures_for_id

\* Mutant of PageStep: a failed listing call ends the walk with the entries collected so
\* far instead of returning the error.
PageStepBestEffort(b, sigsSoFar, r, resp) ==
    LET same == [before |-> b, signatures |-> sigsSoFar, retries |-> r]
    IN  IF ~resp.ok \/ resp.sigs = <<>>
        THEN same @@ [exit |-> "break"]
        ELSE IF ~ParsesOk(Last(resp.sigs))
        THEN same @@ [exit |-> "SignatureParseFailed"]
        ELSE IF Len(resp.sigs) = PageLimit
        THEN [before |-> from_str(Last(resp.sigs)), signatures |-> sigsSoFar \o resp.sigs,
              retries |-> 0, exit |-> "continue"]
        ELSE [same EXCEPT !.signatures = sigsSoFar \o resp.sigs] @@ [exit |-> "break"]

\* Mutant of PageStep: a full page ends the walk like a short one.
PageStepStopsAtFullPage(b, sigsSoFar, r, resp) ==
    LET same == [before |-> b, signatures |-> sigsSoFar, retries |-> r]
    IN  IF ~resp.ok
        THEN same @@ [exit |-> "ClientError"]
        ELSE IF resp.sigs = <<>>
        THEN same @@ [exit |-> "break"]
        ELSE IF ~ParsesOk(Last(resp.sigs))
        THEN same @@ [exit |-> "SignatureParseFailed"]
        ELSE [same EXCEPT !.signatures = sigsSoFar \o resp.sigs] @@ [exit |-> "break"]

\* Mutant of PageStep: an empty page is asked again, without counting the retries.
PageStepRetriesForever(b, sigsSoFar, r, resp) ==
    LET same == [before |-> b, signatures |-> sigsSoFar, retries |-> r]
    IN  IF ~resp.ok
        THEN same @@ [exit |-> "ClientError"]
        ELSE IF resp.sigs = <<>>
        THEN same @@ [exit |-> "continue"]
        ELSE IF ~ParsesOk(Last(resp.sigs))
        THEN same @@ [exit |-> "SignatureParseFailed"]
        ELSE IF Len(resp.sigs) = PageLimit
        THEN [before |-> from_str(Last(resp.sigs)), signatures |-> sigsSoFar \o resp.sigs,
              retries |-> 0, exit |-> "continue"]
        ELSE [same EXCEPT !.signatures = sigsSoFar \o resp.sigs] @@ [exit |-> "break"]

\* One iteration of the `loop` of get_all_signatures_for_id on the response `resp`:
\* the new cursor, entries and retry counter, and how the iteration leaves the loop
\* ("continue", "break", or the error returned by `?`).
PageStep(b, sigsSoFar, r, resp) ==
    LET same == [before |-> b, signatures |-> sigsSoFar, retries |-> r]
    IN  IF ~resp.ok
        THEN same @@ [exit |-> "ClientError"]
        ELSE IF resp.sigs = <<>>
        THEN same @@ [exit |-> "break"]                  \* sigs.last() is None => break
        ELSE IF ~ParsesOk(Last(resp.sigs))
        THEN same @@ [exit |-> "SignatureParseFailed"]
        ELSE CASE Len(resp.sigs) = PageLimit ->
                    [before |-> from_str(Last(resp.sigs)),
                     signatures |-> sigsSoFar \o resp.sigs,
                     retries |-> 0,
                     exit |-> "continue"]
               [] Len(resp.sigs) = 0 ->
                    IF r < MaxEmptyRetries
                    THEN [same EXCEPT !.retries = (r + 1) % 256] @@ [exit |-> "continue"]
                    ELSE same @@ [exit |-> "break"]
               [] OTHER ->
                    [same EXCEPT !.signatures = sigsSoFar \o resp.sigs] @@ [exit |-> "break"]

\* One request to the gateway and the handling of its answer.
ListPage ==
    /\ pc = "paginate"
    /\ \E resp \in ListResponses(history, before) :
         LET n == PageStep(before, signatures, retries, resp)
         IN  /\ before' = n.before
             /\ signatures' = n.signatures
             /\ retries' = n.retries
             /\ calls' = Append(calls, [before |-> before, ok |-> resp.ok, sigs |-> resp.sigs])
             /\ pc' = CASE n.exit = "continue" -> "paginate"
                        [] n.exit = "break" -> "collect"
                        [] OTHER -> "done"
             /\ outcome' = IF n.exit \in {"continue", "break"} THEN outcome ELSE n.exit
    /\ UNCHANGED <<gatewayVars, configVars, fetchVars, extractVars>>

\* After the loop: every collected entry is parsed with from_str(..).unwrap().
CollectSignatures ==
    /\ pc = "collect"
    /\ IF \A i \in DOMAIN signatures : ParsesOk(signatures[i])
       THEN /\ signatures' = [i \in DOMAIN signatures |-> from_str(signatures[i])]
            /\ pc' = "fetch"
            /\ outcome' = outcome
            /\ permits' = concurrency_limit            \* Semaphore::new(self.concurrency_limit)
       ELSE /\ pc' = "done"
            /\ outcome' = "panic: unwrap on Err"
            /\ UNCHANGED <<signatures, permits>>
    /\ UNCHANGED <<gatewayVars, configVars, pagVars, tx_tasks, joined, transactions, errors,
                   extractVars>>

\* ------------------------------------ get_transactions_from_signatures

\* Mutant of RetryAgain: one more attempt is made after the last delay.
RetryAgainOnceMore(made) == made - 1 <= FetchRetryDelays

\* retry(iterable, op) of the retry crate runs op, and after a failure takes the next
\* delay of the iterator, sleeps and runs op again; it gives up when the iterator is
\* exhausted. `made` attempts have failed so far, this one included.
RetryAgain(made) == made - 1 < FetchRetryDelays

\* Mutant of CanAcquire: the task is spawned without waiting for a permit.
CanAcquireAlways(p) == TRUE

\* Mutant of CanAcquire: a permit is granted only while another one stays available.
CanAcquireNeedsSpare(p) == p > 1

\* Semaphore::acquire_owned().await returns once a permit is available.
CanAcquire(p) == p > 0

\* Mutant of NextSignature: every task is given the first signature.
NextSignatureFirst(sigs, spawned) == sigs[1]

\* `for signature in signatures`: the signature moved into the next task.
NextSignature(sigs, spawned) == sigs[spawned + 1]

\* First loop: acquire_owned().await, then tokio::spawn of the task that holds the permit.
SpawnTask ==
    /\ pc = "fetch"
    /\ Len(tx_tasks) < Len(signatures)
    /\ CanAcquire(permits)
    /\ permits' = permits - 1
    /\ tx_tasks' = Append(tx_tasks, [sig |-> NextSignature(signatures, Len(tx_tasks)),
                                     tries |-> 0, res |-> "pending"])
    /\ UNCHANGED <<gatewayVars, configVars, pc, outcome, signatures, pagVars, joined,
                   transactions, errors, extractVars>>

\* Mutant of FetchAttempt: a task whose fetch failed ends without dropping its permit.
FetchAttemptLeaksOnError(t) ==
    /\ pc = "fetch"
    /\ tx_tasks[t].res = "pending"
    /\ \E ok \in BOOLEAN :
         LET made == tx_tasks[t].tries + 1
             res == IF ok THEN "Ok" ELSE IF RetryAgain(made) THEN "pending" ELSE "Err"
         IN  /\ tx_tasks' = [tx_tasks EXCEPT ![t] = [@ EXCEPT !.tries = made, !.res = res]]
             /\ permits' = IF res = "Ok" THEN permits + 1 ELSE permits
    /\ UNCHANGED <<gatewayVars, configVars, pc, outcome, signatures, pagVars, joined,
                   transactions, errors, extractVars>>

\* One client.get_transaction call of task t inside retry(): it succeeds or fails. The
\* task ends, and drops its permit, on success or when no delay is left.
FetchAttempt(t) ==
    /\ pc = "fetch"
    /\ tx_tasks[t].res = "pending"
    /\ \E ok \in BOOLEAN :
         LET made == tx_tasks[t].tries + 1
             res == IF ok THEN "Ok" ELSE IF RetryAgain(made) THEN "pending" ELSE "Err"
         IN  /\ tx_tasks' = [tx_tasks EXCEPT ![t] = [@ EXCEPT !.tries = made, !.res = res]]
             /\ permits' = IF res = "pending" THEN permits ELSE permits + 1
    /\ UNCHANGED <<gatewayVars, configVars, pc, outcome, signatures, pagVars, joined,
                   transactions, errors, extractVars>>

\* Mutant of JoinTask: the error of a failed task is returned (`res?`) and ends run().
JoinTaskFailFast ==
    /\ pc = "fetch"
    /\ Len(tx_tasks) = Len(signatures)
    /\ joined < Len(tx_tasks)
    /\ tx_tasks[joined + 1].res # "pending"
    /\ joined' = joined + 1
    /\ IF tx_tasks[joined + 1].res = "Ok"
       THEN /\ transactions' = Append(transactions, ledger[tx_tasks[joined + 1].sig])
            /\ UNCHANGED <<pc, outcome>>
       ELSE /\ pc' = "done"
            /\ outcome' = "ClientError"
            /\ UNCHANGED transactions
    /\ UNCHANGED <<gatewayVars, configVars, signatures, pagVars, permits, tx_tasks, errors,
                   extractVars>>

\* Second loop: task.await of the next task, in spawn order.
JoinTask ==
    /\ pc = "fetch"
    /\ Len(tx_tasks) = Len(signatures)
    /\ joined < Len(tx_tasks)
    /\ tx_tasks[joined + 1].res # "pending"
    /\ joined' = joined + 1
    /\ IF tx_tasks[joined + 1].res = "Ok"
       THEN /\ transactions' = Append(transactions, ledger[tx_tasks[joined + 1].sig])
            /\ UNCHANGED errors
       ELSE /\ errors' = Append(errors, tx_tasks[joined + 1].sig)
            /\ UNCHANGED transactions
    /\ UNCHANGED <<gatewayVars, configVars, pc, outcome, signatures, pagVars, permits,
                   tx_tasks, extractVars>>

\* Ok(transactions)
FetchReturn ==
    /\ pc = "fetch"
    /\ Len(tx_tasks) = Len(signatures)
    /\ joined = Len(tx_tasks)
    /\ pc' = "filter"
    /\ UNCHANGED <<gatewayVars, configVars, outcome, signatures, pagVars, fetchVars,
                   extractVars>>

\* -------------------------------------- run(): filtering and extraction

\* filtered_transactions: the transactions every tx filter accepts.
FilterTransactions ==
    /\ pc = "filter"
    /\ LET r == FilterTransactionsOf(tx_filters, transactions)
       IN  IF r.panic # NoPanic
           THEN /\ pc' = "done"
                /\ outcome' = r.panic
                /\ UNCHANGED <<filtered_transactions, workers>>
           ELSE /\ pc' = "extract"
                /\ outcome' = outcome
                /\ filtered_transactions' = r.kept
                /\ workers' = [i \in DOMAIN r.kept |-> [stage |-> "todo", ixs |-> <<>>, k |-> 0]]
    /\ UNCHANGED <<gatewayVars, configVars, signatures, pagVars, fetchVars, ix_accounts>>

\* A rayon worker takes transaction i: flattens it and filters its instructions.
FlattenTx(i) ==
    /\ pc = "extract"
    /\ workers[i].stage = "todo"
    /\ LET f == Flatten(filtered_transactions[i])
       IN  IF f.panic # NoPanic
           THEN /\ pc' = "done"
                /\ outcome' = f.panic
                /\ UNCHANGED workers
           ELSE /\ workers' = [workers EXCEPT ![i] =
                        [stage |-> "extract",
                         ixs |-> FilteredInstructions(ix_filters, ix_or_filters, f.ixs),
                         k |-> 0]]
                /\ UNCHANGED <<pc, outcome>>
    /\ UNCHANGED <<gatewayVars, configVars, signatures, pagVars, fetchVars,
                   filtered_transactions, ix_accounts>>

\* Number of (instruction, rule) pairs of worker w, and the k-th pair in loop order.
PairsOf(w) == Len(w.ixs) * Len(account_indices)
PairIx(w) == w.ixs[(w.k \div Len(account_indices)) + 1]
PairRule(w) == account_indices[(w.k % Len(account_indices)) + 1]

\* Mutant of ExtractPair: the entry of the rule's label is created before the lookup,
\* so a rule that does not resolve leaves an empty set behind.
ExtractPairEntryFirst(i) ==
    /\ pc = "extract"
    /\ workers[i].stage = "extract"
    /\ workers[i].k < PairsOf(workers[i])
    /\ LET e == ExtractOne(PairIx(workers[i]), PairRule(workers[i]))
           label == PairRule(workers[i]).name
       IN  IF e.panic # NoPanic
           THEN /\ pc' = "done"
                /\ outcome' = e.panic
                /\ UNCHANGED <<workers, ix_accounts>>
           ELSE /\ workers' = [workers EXCEPT ![i].k = @ + 1]
                /\ ix_accounts' = IF IsSome(e.insert)
                                  THEN Insert(ix_accounts, Unwrap(e.insert).label,
                                              Unwrap(e.insert).address)
                                  ELSE IF label \in DOMAIN ix_accounts
                                  THEN ix_accounts
                                  ELSE (label :> {}) @@ ix_accounts
                /\ UNCHANGED <<pc, outcome>>
    /\ UNCHANGED <<gatewayVars, configVars, signatures, pagVars, fetchVars,
                   filtered_transactions>>

\* The worker of transaction i runs the loop body for its next (instruction, rule) pair.
ExtractPair(i) ==
    /\ pc = "extract"
    /\ workers[i].stage = "extract"
    /\ workers[i].k < PairsOf(workers[i])
    /\ LET e == ExtractOne(PairIx(workers[i]), PairRule(workers[i]))
       IN  IF e.panic # NoPanic
           THEN /\ pc' = "done"
                /\ outcome' = e.panic
                /\ UNCHANGED <<workers, ix_accounts>>
           ELSE /\ workers' = [workers EXCEPT ![i].k = @ + 1]
                /\ ix_accounts' = IF IsSome(e.insert)
                                  THEN Insert(ix_accounts, Unwrap(e.insert).label,
                                              Unwrap(e.insert).address)
                                  ELSE ix_accounts
                /\ UNCHANGED <<pc, outcome>>
    /\ UNCHANGED <<gatewayVars, configVars, signatures, pagVars, fetchVars,
                   filtered_transactions>>

WorkerFinished(w) == w.stage = "extract" /\ w.k = PairsOf(w)

\* Mutant of RunReturn: run() returns without waiting for the workers.
RunReturnEarly ==
    /\ pc = "extract"
    /\ pc' = "done"
    /\ outcome' = "Ok"
    /\ UNCHANGED <<gatewayVars, configVars, signatures, pagVars, fetchVars, extractVars>>

\* for_each has returned: Ok(crawled_accounts)
RunReturn ==
    /\ pc = "extract"
    /\ \A i \in DOMAIN workers : WorkerFinished(workers[i])
    /\ pc' = "done"
    /\ outcome' = "Ok"
    /\ UNCHANGED <<gatewayVars, configVars, signatures, pagVars, fetchVars, extractVars>>

\* ------------------------------------------- builder methods of Crawler

\* Number of filters and rules registered.
ConfigSize == Len(tx_filters) + Len(ix_filters) + Len(ix_or_filters) + Len(account_indices)

\* What a builder method leaves alone: everything but the field it writes.
BuilderFrame ==
    UNCHANGED <<gatewayVars, pc, outcome, signatures, pagVars, fetchVars, extractVars>>

\* self.tx_filters.push(Box::new(filter))
AddTxFilter(filter) ==
    /\ pc = "build"
    /\ ConfigSize < MaxConfig
    /\ tx_filters' = Append(tx_filters, filter)
    /\ UNCHANGED <<ix_filters, ix_or_filters, account_indices, concurrency_limit>>
    /\ BuilderFrame

\* self.ix_filters.push(Box::new(filter))
AddIxFilter(filter) ==
    /\ pc = "build"
    /\ ConfigSize < MaxConfig
    /\ ix_filters' = Append(ix_filters, filter)
    /\ UNCHANGED <<tx_filters, ix_or_filters, account_indices, concurrency_limit>>
    /\ BuilderFrame

\* filters.into_iter().for_each(|filter| self.ix_or_filters.push(Box::new(filter)))
AddIxOrFilters(filters) ==
    /\ pc = "build"
    /\ ConfigSize + Len(filters) <= MaxConfig
    /\ ix_or_filters' = ix_or_filters \o filters
    /\ UNCHANGED <<tx_filters, ix_filters, account_indices, concurrency_limit>>
    /\ BuilderFrame

\* self.account_indices.push(index)
AddAccountIndex(index) ==
    /\ pc = "build"
    /\ ConfigSize < MaxConfig
    /\ account_indices' = Append(account_indices, index)
    /\ UNCHANGED <<tx_filters, ix_filters, ix_or_filters, concurrency_limit>>
    /\ BuilderFrame

\* Crawler::account_indices: self.account_indices = indices
AccountIndices(indices) ==
    /\ pc = "build"
    /\ ConfigSize - Len(account_indices) + Len(indices) <= MaxConfig
    /\ account_indices' = indices
    /\ UNCHANGED <<tx_filters, ix_filters, ix_or_filters, concurrency_limit>>
    /\ BuilderFrame

\* self.concurrency_limit = limit
SetConcurrencyLimit(limit) ==
    /\ pc = "build"
    /\ concurrency_limit' = limit
    /\ UNCHANGED <<tx_filters, ix_filters, ix_or_filters, account_indices>>
    /\ BuilderFrame

\* run(&self) is called: from here on the configuration is only read.
Run ==
    /\ pc = "build"
    /\ pc' = "paginate"
    /\ UNCHANGED <<gatewayVars, configVars, outcome, signatures, pagVars, fetchVars, extractVars>>

\* ------------------------- candy_machine: get_cmv1_mints, get_cmv2_mints

\* UiCompiledInstruction of a raw message: the program and the accounts are indices
\* (from 0) into the account keys of the message.
UiCompiledInstruction(program_id_index, accounts, data) ==
    [kind |-> "Compiled", program_id_index |-> program_id_index, accounts |-> accounts,
     data |-> data]

CMV1_PROGRAM_ID == "CMV1"
CMV2_PROGRAM_ID == "CMV2"

\* candy_machine_id: the address whose history is crawled
CandyMachineId == "CM"

\* The function that is running: get_cmv1_mints or get_cmv2_mints
Legacy == IF pc \in {"cmv1: filter", "cmv1: extract"} THEN "cmv1" ELSE "cmv2"

\* cmv1_tx_filter / cmv2_tx_filter: the panic, if any, and the verdict
cm_tx_filter_panic(tx) ==
    IF tx.enc # "Json" THEN "panic: "
    ELSE IF tx.msg # "Raw" THEN "panic: not a raw message"
    ELSE NoPanic
cmv1_tx_filter(tx) == \E i \in DOMAIN tx.account_keys : tx.account_keys[i] = CMV1_PROGRAM_ID
cmv2_tx_filter(tx) == \E i \in DOMAIN tx.account_keys : tx.account_keys[i] = CMV2_PROGRAM_ID

successful_txs_filter(tx) == IF IsSome(tx.meta) THEN ~IsSome(Unwrap(tx.meta).err) ELSE FALSE

cmv1_ix_len(ix) == Len(ix.accounts) = 14
cmv2_ix_len(ix) == Len(ix.accounts) >= 16

\* filtered_txs: .filter(cmvN_tx_filter).filter(successful_txs_filter)
CmFilterTransactions ==
    /\ pc \in {"cmv1: filter", "cmv2: filter"}
    /\ LET panics == {i \in DOMAIN transactions : cm_tx_filter_panic(transactions[i]) # NoPanic}
           keep(tx) == /\ IF Legacy = "cmv1" THEN cmv1_tx_filter(tx) ELSE cmv2_tx_filter(tx)
                       /\ successful_txs_filter(tx)
           kept == SelectSeq(transactions, keep)
       IN  IF panics # {}
           THEN \* into_par_iter (cmv1): any of them; into_iter (cmv2): the first
                /\ \E i \in panics :
                      /\ Legacy = "cmv2" => \A j \in panics : i <= j
                      /\ outcome' = cm_tx_filter_panic(transactions[i])
                /\ pc' = "done"
                /\ UNCHANGED <<filtered_transactions, workers>>
           ELSE /\ pc' = IF Legacy = "cmv1" THEN "cmv1: extract" ELSE "cmv2: extract"
                /\ outcome' = outcome
                /\ filtered_transactions' = kept
                /\ workers' = [i \in DOMAIN kept |-> [stage |-> "todo", ixs |-> <<>>, k |-> 0]]
    /\ UNCHANGED <<gatewayVars, configVars, signatures, pagVars, fetchVars, ix_accounts>>

\* filtered_instructions of get_cmv1_mints / get_cmv2_mints for one raw transaction
CmFilteredInstructions(which, tx, candy_machine_id) ==
    LET account_keys == tx.account_keys
        keep1(ix) == /\ account_keys[ix.program_id_index + 1] = CMV1_PROGRAM_ID
                     /\ cmv1_ix_len(ix)
                     /\ account_keys[ix.accounts[2] + 1] = candy_machine_id
        keep2(ix) == /\ account_keys[ix.program_id_index + 1] = CMV2_PROGRAM_ID
                     /\ cmv2_ix_len(ix)
    IN  IF which = "cmv1" THEN SelectSeq(tx.instructions, keep1)
        ELSE SelectSeq(tx.instructions, keep2)

\* The closure of filtered_txs.par_iter().for_each on transaction i: with one qualifying
\* instruction its accounts 4 and 5 are inserted, with more than one it panics.
CmMints(i) ==
    /\ pc \in {"cmv1: extract", "cmv2: extract"}
    /\ workers[i].stage = "todo"
    /\ LET tx == filtered_transactions[i]
           filtered_instructions == CmFilteredInstructions(Legacy, tx, CandyMachineId)
       IN  IF Len(filtered_instructions) = 0
           THEN /\ workers' = [workers EXCEPT ![i].stage = "extract"]
                /\ UNCHANGED <<pc, outcome, ix_accounts>>
           ELSE IF Len(filtered_instructions) = 1
           THEN LET ix == filtered_instructions[1]
                IN  /\ ix_accounts' =
                          Insert(Insert(ix_accounts, "metadata", tx.account_keys[ix.accounts[5] + 1]),
                                 "mint", tx.account_keys[ix.accounts[6] + 1])
                    /\ workers' = [workers EXCEPT ![i] = [stage |-> "extract",
                                                          ixs |-> filtered_instructions, k |-> 0]]
                    /\ UNCHANGED <<pc, outcome>>
           ELSE /\ pc' = "done"
                /\ outcome' = "panic: Expected zero or one instruction"
                /\ UNCHANGED <<workers, ix_accounts>>
    /\ UNCHANGED <<gatewayVars, configVars, signatures, pagVars, fetchVars,
                   filtered_transactions>>

\* Ok(CrawledAccounts { mint_addresses, metadata_addresses })
CmReturn ==
    /\ pc \in {"cmv1: extract", "cmv2: extract"}
    /\ \A i \in DOMAIN workers : workers[i].stage = "extract"
    /\ pc' = "done"
    /\ outcome' = "Ok"
    /\ UNCHANGED <<gatewayVars, configVars, signatures, pagVars, fetchVars, extractVars>>

\* ------------------------------------------------------- specifications

\* Histories of the target address: position i holds signature i, well-formed or not.
Histories ==
    UNION { { [i \in 1..n |-> IF i \in bad THEN -i ELSE i] : bad \in SUBSET (1..n) } :
            n \in 0..MaxHist }

\* Crawler::new
NewCrawler ==
    /\ tx_filters = <<>>
    /\ ix_filters = <<>>
    /\ ix_or_filters = <<>>
    /\ account_indices = <<>>
    /\ concurrency_limit = DEFAULT_CONCURRENCY_LIMIT

\* Locals of a stage that has not started.
PagIdle == before = NoSig /\ retries = 0 /\ calls = <<>>
FetchIdle(k) ==
    /\ permits = k
    /\ tx_tasks = <<>>
    /\ joined = 0
    /\ transactions = <<>>
    /\ errors = <<>>
ExtractIdle ==
    /\ filtered_transactions = <<>>
    /\ workers = <<>>
    /\ ix_accounts = <<>>

\* ---- the paginator alone: run() of a new crawler on any history

InitPag ==
    /\ history \in Histories
    /\ ledger = <<>>
    /\ NewCrawler
    /\ pc = "paginate"
    /\ outcome = "running"
    /\ signatures = <<>>
    /\ PagIdle
    /\ FetchIdle(0)
    /\ ExtractIdle

NextPag == ListPage \/ CollectSignatures

SpecPag == InitPag /\ [][NextPag]_vars

\* The walk is straight-line code around a blocking client call that returns: it takes
\* its next step whenever it has one.
SpecPagLive == SpecPag /\ WF_vars(NextPag)

\* ---- sample data

A == <<"A">>
B == <<"B">>

pdA == PartiallyDecoded("P", <<A>>, "D1")
pdAB == PartiallyDecoded("P", <<A, B>>, "D2")
pdQ == PartiallyDecoded("Q", <<B, A>>, "D1")
psM == ParsedIx("P", Some("mintTo"), [mint |-> JString(<<"\\", "M", "\\">>)])
psE == ParsedIx("Q", None, <<>>)
psN == ParsedIx("P", Some("transfer"), [mint |-> JNumber])

Key(k, signer) == [pubkey |-> k, signer |-> signer]
Group(index, ixs) == [index |-> index, instructions |-> ixs]
OkMeta == Some(Meta(None, None, None))

\* ---- the fetcher, followed by the rest of run()

\* The record the gateway holds for signature s: one positional instruction of program P
\* whose account 0 differs from one signature to the next.
AddressOf(s) == << <<"A">>, <<"B">>, <<"C">>, <<"D">> >>[((s - 1) % 4) + 1]
RecordOf(s) ==
    Tx(s, "Json", "Parsed", <<Key("P", FALSE)>>,
       <<PartiallyDecoded("P", <<AddressOf(s)>>, "D1")>>, OkMeta)

InitFetch ==
    \E n \in 0..MaxSigs, k \in (0..MaxK) \cup {DEFAULT_CONCURRENCY_LIMIT} :
        /\ history = [i \in 1..n |-> i]
        /\ ledger = [i \in 1..n |-> RecordOf(i)]
        /\ tx_filters = <<[kind |-> "SuccessfulTxFilter"]>>
        /\ ix_filters = <<ProgramIdFilter("P")>>
        /\ ix_or_filters = <<>>
        /\ account_indices = <<unparsed("acct", 0)>>
        /\ concurrency_limit = k
        /\ pc = "fetch"
        /\ outcome = "running"
        /\ signatures = [i \in 1..n |-> i]
        /\ PagIdle
        /\ FetchIdle(k)
        /\ ExtractIdle

NextExtract ==
    \/ FilterTransactions
    \/ \E i \in DOMAIN workers : FlattenTx(i)
    \/ \E i \in DOMAIN workers : ExtractPair(i)
    \/ RunReturn

NextFetch ==
    \/ SpawnTask
    \/ \E t \in DOMAIN tx_tasks : FetchAttempt(t)
    \/ JoinTask
    \/ FetchReturn
    \/ NextExtract

SpecFetch == InitFetch /\ [][NextFetch]_vars

\* The tokio runtime polls every task that is ready and a gateway request returns: the
\* stage takes its next step whenever it has one.
SpecFetchLive == SpecFetch /\ WF_vars(NextFetch)

\* ---- the whole of run() on a history of three transactions

P == <<"P">>
M1 == <<"M", "1">>
N1 == <<"N", "1">>

\* The three transactions of the address: one that succeeded with a positional
\* instruction of program P, one that failed, one whose instruction is of another
\* program.
RunBodies ==
    << Tx(0, "Json", "Parsed", <<Key("P", FALSE)>>,
          <<PartiallyDecoded("P", <<P, <<"C">>, <<"X">>, <<"Y">>, M1, N1>>, "D1")>>, OkMeta),
       Tx(0, "Json", "Parsed", <<Key("P", FALSE)>>,
          <<PartiallyDecoded("P", <<P, <<"C">>, <<"X">>, <<"Y">>, <<"M", "2">>, <<"N", "2">>>>, "D1")>>,
          Some(Meta(Some("InstructionError"), None, None))),
       Tx(0, "Json", "Parsed", <<Key("Q", FALSE)>>,
          <<PartiallyDecoded("Q", <<P, <<"C">>, <<"X">>, <<"Y">>, <<"M", "3">>, <<"N", "3">>>>, "D1")>>,
          OkMeta) >>

\* run() is called on a crawler configured with the success filter, the program-id
\* filter and two positional rules; the three transactions are in any order in the
\* history of the address.
InitRun ==
    \E order \in Permutations(1..3), k \in {1, DEFAULT_CONCURRENCY_LIMIT} :
        /\ history = <<1, 2, 3>>
        /\ ledger = [i \in 1..3 |-> [RunBodies[order[i]] EXCEPT !.sig = i]]
        /\ tx_filters = <<[kind |-> "SuccessfulTxFilter"]>>
        /\ ix_filters = <<ProgramIdFilter("P")>>
        /\ ix_or_filters = <<>>
        /\ account_indices = <<unparsed("metadata", 4), unparsed("mint", 5)>>
        /\ concurrency_limit = k
        /\ pc = "paginate"
        /\ outcome = "running"
        /\ signatures = <<>>
        /\ PagIdle
        /\ FetchIdle(0)
        /\ ExtractIdle

NextRun == ListPage \/ CollectSignatures \/ NextFetch

SpecRun == InitRun /\ [][NextRun]_vars

\* ---- filtering and extraction on fetched transactions

\* Transactions that differ in what the transaction filters and the decoding read; each
\* has the positional instruction pdA.
TxFeatureBodies ==
    { Tx(0, "Json", "Parsed", <<Key("S", TRUE), Key("P", FALSE)>>, <<pdA>>, OkMeta),
      Tx(0, "Json", "Parsed", <<Key("S", FALSE), Key("CMV2", FALSE)>>, <<pdA>>,
         Some(Meta(None, Some(<<"ok">>), None))),
      Tx(0, "Json", "Parsed", <<Key("P", FALSE)>>, <<pdA>>,
         Some(Meta(Some("InstructionError"), Some(<<"ok">>), None))),
      Tx(0, "Json", "Parsed", <<Key("P", TRUE), Key("CMV2", FALSE)>>, <<pdA>>,
         Some(Meta(None, Some(<<"ok", "bot tax">>), None))),
      Tx(0, "Json", "Parsed", <<>>, <<pdA>>, None),
      Tx(0, "Json", "Raw", <<Key("P", FALSE)>>, <<CompiledIx>>, OkMeta),
      Tx(0, "Binary", "Raw", <<>>, <<>>, OkMeta),
      Tx(0, "Binary", "Raw", <<>>, <<>>, Some(Meta(Some("InstructionError"), None, None))) }

\* Decoded transactions that differ in their instructions.
TxInstructionBodies ==
    { Tx(0, "Json", "Parsed", <<>>, <<pdA>>, OkMeta),
      Tx(0, "Json", "Parsed", <<>>, <<pdAB, psM>>, OkMeta),
      Tx(0, "Json", "Parsed", <<>>, <<pdQ>>,
         Some(Meta(None, None, Some(<<Group(0, <<pdAB>>), Group(0, <<psM, pdA>>)>>)))),
      Tx(0, "Json", "Parsed", <<>>, <<psE>>, None),
      Tx(0, "Json", "Parsed", <<>>, <<psN>>, OkMeta),
      Tx(0, "Json", "Parsed", <<>>, <<pdA, CompiledIx>>, OkMeta),
      Tx(0, "Json", "Parsed", <<>>, <<pdA>>,
         Some(Meta(None, None, Some(<<Group(0, <<CompiledIx>>)>>)))) }

\* The transaction lists of at most MaxTx records over `bodies`; the record at position
\* i is the one of signature i.
TxLists(bodies) ==
    UNION { { [i \in 1..n |-> [f[i] EXCEPT !.sig = i]] : f \in [1..n -> bodies] } :
            n \in 0..MaxTx }

TxFilterUniverse ==
    { [kind |-> "SuccessfulTxFilter"], [kind |-> "CmV2BotTaxTxFilter"],
      [kind |-> "Cmv2TxFilter"], [kind |-> "TxHasProgramId", program_id |-> "P"],
      [kind |-> "TxHasSigner", address |-> "S"] }

\* Every list of at most two transaction filters.
TxFilterLists ==
    {<<>>} \cup { <<f>> : f \in TxFilterUniverse }
           \cup { <<f, g>> : f \in TxFilterUniverse, g \in TxFilterUniverse }

\* F1 accepts every instruction, F2 rejects every instruction of the sample data.
F1 == NumberAccounts("GreaterThanOrEqual", 0)
F2 == ProgramIdFilter("none")

IxFilterUniverse ==
    { NumberAccounts(c, 1) :
        c \in {"LessThan", "LessThanOrEqual", "EqualTo", "GreaterThan", "GreaterThanOrEqual"} }
    \cup { F1, F2, ProgramIdFilter("P"), DataFilter("D1"), MintToFilter,
           HasAccountFilter(A), HasAccountAtIndexFilter(A, 0), HasAccountAtIndexFilter(B, 1) }

RequiredLists ==
    {<<>>} \cup { <<f>> : f \in IxFilterUniverse }
           \cup { <<F1, F2>>, <<ProgramIdFilter("P"), NumberAccounts("GreaterThanOrEqual", 2)>> }

AlternativeLists ==
    { <<F1, F2>>, <<F2>>, <<DataFilter("D1"), MintToFilter>>,
      <<HasAccountAtIndexFilter(A, 0), HasAccountAtIndexFilter(B, 1)>> }

\* The instruction-filter groups: every required list alone, and every alternative
\* group next to a few required lists.
IxFilterGroups ==
    { <<r, <<>> >> : r \in RequiredLists }
    \cup { <<r, a>> : r \in {<<>>, <<F2>>, <<ProgramIdFilter("P")>>, <<F1, F2>>},
                      a \in AlternativeLists }

RuleLists ==
    { <<>>, <<unparsed("acct", 0), parsed("mint")>>,
      <<unparsed("metadata", 0), unparsed("mint", 1)>> }

\* run() of a configured crawler has fetched `txs` and is about to filter them.
Fetched(txs) ==
    /\ history = [i \in DOMAIN txs |-> i]
    /\ ledger = txs
    /\ concurrency_limit = DEFAULT_CONCURRENCY_LIMIT
    /\ pc = "filter"
    /\ outcome = "running"
    /\ signatures = [i \in DOMAIN txs |-> i]
    /\ PagIdle
    /\ permits = DEFAULT_CONCURRENCY_LIMIT
    /\ tx_tasks = [i \in DOMAIN txs |-> [sig |-> i, tries |-> 1, res |-> "Ok"]]
    /\ joined = Len(txs)
    /\ transactions = txs
    /\ errors = <<>>
    /\ ExtractIdle

InitExtract ==
    \/ \E txs \in TxLists(TxFeatureBodies), fs \in TxFilterLists :
          /\ Fetched(txs)
          /\ tx_filters = fs
          /\ ix_filters = <<>>
          /\ ix_or_filters = <<>>
          /\ account_indices = <<unparsed("acct", 0)>>
    \/ \E txs \in TxLists(TxInstructionBodies), g \in IxFilterGroups, rules \in RuleLists :
          /\ Fetched(txs)
          /\ tx_filters = <<>>
          /\ ix_filters = g[1]
          /\ ix_or_filters = g[2]
          /\ account_indices = rules

SpecExtract == InitExtract /\ [][NextExtract]_vars

\* ---- a crawler is built, then run on a history of one transaction

BuildRules == {unparsed("acct", 0), parsed("mint")}

\* The vectors of at most two rules passed to account_indices.
BuildRuleVectors ==
    {<<>>} \cup { <<r>> : r \in BuildRules } \cup { <<r, q>> : r \in BuildRules, q \in BuildRules }

\* Crawler::new(client, address), the address having one transaction.
InitBuild ==
    /\ history = <<1>>
    /\ ledger = <<Tx(1, "Json", "Parsed", <<Key("P", FALSE)>>, <<pdAB, psM>>, OkMeta)>>
    /\ NewCrawler
    /\ pc = "build"
    /\ outcome = "running"
    /\ signatures = <<>>
    /\ PagIdle
    /\ FetchIdle(0)
    /\ ExtractIdle

NextBuild ==
    \/ AddTxFilter([kind |-> "SuccessfulTxFilter"])
    \/ AddIxFilter(ProgramIdFilter("P"))
    \/ AddIxOrFilters(<<HasAccountFilter(A), MintToFilter>>)
    \/ \E index \in BuildRules : AddAccountIndex(index)
    \/ \E indices \in BuildRuleVectors : AccountIndices(indices)
    \/ \E limit \in 1..MaxK : SetConcurrencyLimit(limit)
    \/ Run
    \/ NextRun

SpecBuild == InitBuild /\ [][NextBuild]_vars

\* ---- get_cmv1_mints and get_cmv2_mints on fetched transactions

\* Account keys of the raw sample transactions, and instruction account lists of `n`
\* entries whose entry 1 is the candy machine, entry 4 `md` and entry 5 `mt`.
CmKeys == <<CMV1_PROGRAM_ID, CMV2_PROGRAM_ID, CandyMachineId, "X", "MD1", "MT1", "MD2", "MT2">>
CmAccounts(n, md, mt) ==
    [j \in 1..n |-> IF j = 2 THEN 2 ELSE IF j = 5 THEN md ELSE IF j = 6 THEN mt ELSE 3]

\* Raw transactions with no, one or two mint instructions of either program.
CmBodies ==
    { Tx(0, "Json", "Raw", CmKeys, <<UiCompiledInstruction(1, CmAccounts(16, 4, 5), "d")>>, OkMeta),
      Tx(0, "Json", "Raw", CmKeys,
         <<UiCompiledInstruction(1, CmAccounts(16, 4, 5), "d"),
           UiCompiledInstruction(1, CmAccounts(17, 6, 7), "d")>>, OkMeta),
      Tx(0, "Json", "Raw", CmKeys, <<UiCompiledInstruction(0, CmAccounts(14, 6, 7), "d")>>, OkMeta),
      Tx(0, "Json", "Raw", CmKeys,
         <<UiCompiledInstruction(0, CmAccounts(14, 4, 5), "d"),
           UiCompiledInstruction(0, CmAccounts(14, 6, 7), "d")>>, OkMeta),
      Tx(0, "Json", "Raw", CmKeys,
         <<UiCompiledInstruction(1, CmAccounts(15, 4, 5), "d"),
           UiCompiledInstruction(0, CmAccounts(13, 6, 7), "d"),
           UiCompiledInstruction(3, CmAccounts(16, 6, 7), "d")>>, OkMeta),
      Tx(0, "Json", "Raw", CmKeys, <<UiCompiledInstruction(1, CmAccounts(16, 6, 7), "d")>>,
         Some(Meta(Some("InstructionError"), None, None))),
      Tx(0, "Json", "Raw", <<"X", "MD1">>, <<>>, OkMeta),
      Tx(0, "Json", "Parsed", <<Key("P", FALSE)>>, <<pdA>>, OkMeta),
      Tx(0, "Binary", "Raw", <<>>, <<>>, OkMeta) }

\* get_cmv1_mints or get_cmv2_mints has fetched `txs` and is about to filter them.
InitCm ==
    \E txs \in TxLists(CmBodies), start \in {"cmv1: filter", "cmv2: filter"} :
        /\ history = [i \in DOMAIN txs |-> i]
        /\ ledger = txs
        /\ NewCrawler
        /\ pc = start
        /\ outcome = "running"
        /\ signatures = [i \in DOMAIN txs |-> i]
        /\ PagIdle
        /\ permits = 0
        /\ tx_tasks = [i \in DOMAIN txs |-> [sig |-> i, tries |-> 1, res |-> "Ok"]]
        /\ joined = Len(txs)
        /\ transactions = txs
        /\ errors = <<>>
        /\ filtered_transactions = <<>>
        /\ workers = <<>>
        /\ ix_accounts = [metadata |-> {}, mint |-> {}]

NextCm ==
    \/ CmFilterTransactions
    \/ \E i \in DOMAIN workers : CmMints(i)
    \/ CmReturn

SpecCm == InitCm /\ [][NextCm]_vars

\* ------------------------------------------------------------------ claims

WellFormed(h) == \A i \in DOMAIN h : ParsesOk(h[i])

\* C1 (as claimed): whenever the paginator returns, it returns exactly the signatures of
\* the (well-formed) history, each once and in order, also when the gateway answered
\* some request with a premature empty page.
C1_AllSignaturesReturned ==
    (pc = "fetch" /\ WellFormed(history)) =>
        signatures = [i \in DOMAIN history |-> from_str(history[i])]

\* Number of requests at the end of the log that returned an empty page for the cursor
\* of the last request.
RECURSIVE TrailingEmpty(_)
TrailingEmpty(log) ==
    IF log = <<>> THEN 0
    ELSE IF Last(log).ok /\ Last(log).sigs = <<>>
              /\ (Len(log) > 1 => log[Len(log) - 1].before = Last(log).before)
         THEN 1 + TrailingEmpty(SubSeq(log, 1, Len(log) - 1))
         ELSE 0

\* C2 (as claimed): the walk ends on an empty page only after the request for that
\* cursor has been re-issued MaxEmptyRetries times, each with the same cursor.
C2_EmptyPageRetried ==
    (pc \in {"collect", "fetch"} /\ calls # <<>> /\ Last(calls).ok /\ Last(calls).sigs = <<>>)
        => TrailingEmpty(calls) > MaxEmptyRetries

\* Tasks spawned and not yet completed: their request is in flight.
InFlight == {t \in DOMAIN tx_tasks : tx_tasks[t].res = "pending"}

\* C3: at most concurrency_limit fetch tasks are in flight, and each of them holds one
\* of the permits: the semaphore never hands out a permit it does not have.
C3_InFlightBounded ==
    /\ Cardinality(InFlight) <= concurrency_limit
    /\ permits >= 0
    /\ pc = "fetch" => Cardinality(InFlight) + permits = concurrency_limit

\* C3 witness: as many tasks in flight as the limit allows while a signature still waits.
C3_Witness ==
    /\ pc = "fetch"
    /\ concurrency_limit >= 1
    /\ Cardinality(InFlight) = concurrency_limit
    /\ Len(tx_tasks) < Len(signatures)

\* The tasks whose fetch succeeded, in spawn order.
Succeeded == SelectSeq(tx_tasks, LAMBDA t : t.res = "Ok")

\* C4: a fetch that failed every attempt does not fail the stage. Once the fetch stage
\* has returned, `transactions` holds the records of exactly the tasks that succeeded, no
\* error is returned, and run() ends with Ok and the addresses of those records.
C4_FailedFetchOmitted ==
    /\ pc \in {"filter", "extract", "done"} =>
          /\ transactions = [i \in DOMAIN Succeeded |-> ledger[Succeeded[i].sig]]
          /\ outcome \in {"running", "Ok"}
    /\ pc = "done" =>
          /\ outcome = "Ok"
          /\ \A i \in DOMAIN Succeeded : AddressOf(Succeeded[i].sig) \in ix_accounts["acct"]
          /\ \A t \in DOMAIN tx_tasks :
                (tx_tasks[t].res = "Err" /\ "acct" \in DOMAIN ix_accounts)
                    => AddressOf(tx_tasks[t].sig) \notin ix_accounts["acct"]

\* C4 witness: run() returned Ok although one fetch failed all its attempts, and another
\* signature was fetched.
C4_Witness ==
    /\ pc = "done"
    /\ outcome = "Ok"
    /\ \E t \in DOMAIN tx_tasks :
          tx_tasks[t].res = "Err" /\ tx_tasks[t].tries = FetchRetryDelays + 1
    /\ \E t \in DOMAIN tx_tasks : tx_tasks[t].res = "Ok"

\* C5: each signature is given to exactly one task, and when every fetch succeeded the
\* stage returns one record per signature: none lost, none duplicated.
C5_OneRecordPerSignature ==
    /\ \A t \in DOMAIN tx_tasks : tx_tasks[t].sig = signatures[t]
    /\ (pc \in {"filter", "extract", "done"} /\ \A t \in DOMAIN tx_tasks : tx_tasks[t].res = "Ok")
          => transactions = [i \in DOMAIN signatures |-> ledger[signatures[i]]]

\* C5 witness: the stage returned the records of two signatures, one of them fetched
\* only after failed attempts.
C5_Witness ==
    /\ pc = "filter"
    /\ Len(signatures) >= 2
    /\ \A t \in DOMAIN tx_tasks : tx_tasks[t].res = "Ok"
    /\ \E t \in DOMAIN tx_tasks : tx_tasks[t].tries > 1
    /\ Len(transactions) = Len(signatures)

\* The flattened instructions of the transaction of worker i.
FlatOf(i) == Flatten(filtered_transactions[i]).ixs

\* f returns true on tx (and does not panic).
TxFilterAccepts(f, tx) == TxFilterPanic(f, tx) = NoPanic /\ TxFilter(f, tx)

\* C6: once the transactions are filtered, a fetched transaction is among those handed
\* to flattening and extraction if and only if every registered transaction filter
\* returns true for it; each of them gets a worker.
C6_TxFilterConjunction ==
    pc = "extract" =>
        /\ \A i \in DOMAIN transactions :
              (\E j \in DOMAIN filtered_transactions : filtered_transactions[j] = transactions[i])
              <=> (\A k \in DOMAIN tx_filters : TxFilterAccepts(tx_filters[k], transactions[i]))
        /\ DOMAIN workers = DOMAIN filtered_transactions

\* C6 witness: with two filters registered, one transaction passed both and another was
\* rejected by the second filter alone.
C6_Witness ==
    /\ pc = "extract"
    /\ Len(tx_filters) = 2
    /\ Len(transactions) = 2
    /\ Len(filtered_transactions) = 1
    /\ \E i \in DOMAIN transactions :
          /\ transactions[i] # filtered_transactions[1]
          /\ TxFilterAccepts(tx_filters[1], transactions[i])
          /\ ~TxFilterAccepts(tx_filters[2], transactions[i])

\* C7: the instructions a worker keeps are those of the flattened transaction for which
\* every required filter returns true and the alternative group is empty or has a filter
\* that returns true. With F1 always true and F2 always false: the required group
\* <<F1, F2>> keeps nothing, the alternative group <<F1, F2>> keeps everything, and so
\* does an empty alternative group.
C7_IxFilterComposition ==
    \A i \in DOMAIN workers :
        workers[i].stage = "extract" =>
            LET keep(ix) ==
                    /\ \A k \in DOMAIN ix_filters : IxFilter(ix_filters[k], ix)
                    /\ \/ ix_or_filters = <<>>
                       \/ \E k \in DOMAIN ix_or_filters : IxFilter(ix_or_filters[k], ix)
            IN  /\ workers[i].ixs = SelectSeq(FlatOf(i), keep)
                /\ ix_filters = <<F1, F2>> => workers[i].ixs = <<>>
                /\ (ix_filters = <<>> /\ ix_or_filters = <<F1, F2>>) => workers[i].ixs = FlatOf(i)
                /\ (ix_filters = <<>> /\ ix_or_filters = <<>>) => workers[i].ixs = FlatOf(i)

\* C7 witness: with both groups non-empty, a worker kept some instructions of its
\* transaction and dropped others.
C7_Witness ==
    \E i \in DOMAIN workers :
        /\ workers[i].stage = "extract"
        /\ ix_filters # <<>>
        /\ ix_or_filters # <<>>
        /\ workers[i].ixs # <<>>
        /\ Len(workers[i].ixs) < Len(FlatOf(i))

\* The filters that read positional data only and are not documented as selecting a shape.
PositionalFilterKinds ==
    {"IxNumberAccounts", "IxHasAccountFilter", "IxHasAccountAtIndexFilter", "IxDataFilter"}

\* C8 (as claimed): every positional filter registered in either group returns true on
\* every Structured (fully parsed) instruction a worker applies it to.
C8_PositionalFiltersPassStructured ==
    \A i \in DOMAIN workers :
        workers[i].stage = "extract" =>
            \A ix \in Range(FlatOf(i)) :
                ix.kind = "Parsed" =>
                    \A f \in Range(ix_filters) \cup Range(ix_or_filters) :
                        f.kind \in PositionalFilterKinds => IxFilter(f, ix)

\* The panics of run() on a transaction that is not in the decoded form.
DecodePanics ==
    {"panic: Not JSON encoded transaction", "panic: not a parsed message",
     "panic: not a parsed instruction"}

\* C9 (as claimed): a filtered transaction that is not in the decoded form is skipped;
\* it never ends run() without a result.
C9_UndecodedSkipped == outcome \notin DecodePanics

\* C10 (as claimed): a positional rule whose index is out of bounds for an instruction
\* is skipped; it never makes run() fail.
C10_OutOfBoundsSkipped == outcome # "panic: index out of bounds"

\* The rule a does not apply to the shape of ix: a positional rule on a Structured
\* instruction, or a structured-field rule on a Positional one.
AcrossShapes(ix, a) ==
    IF ix.kind = "PartiallyDecoded" THEN a.index = None ELSE IsSome(a.index)

\* Worker i is about to run the loop body on a pair of a rule and an instruction of the
\* other shape.
NextPairAcrossShapes(i) ==
    /\ pc = "extract"
    /\ workers[i].stage = "extract"
    /\ workers[i].k < PairsOf(workers[i])
    /\ AcrossShapes(PairIx(workers[i]), PairRule(workers[i]))

\* C11: a rule never applies across shapes. The loop body of a positional rule on a
\* Structured instruction, or of a structured-field rule on a Positional instruction,
\* inserts no (label, address) pair and does not fail: the step of the worker leaves
\* ix_accounts and the outcome of run() as they were.
C11_ShapeIsolation ==
    [][\A i \in DOMAIN workers :
          NextPairAcrossShapes(i) =>
              /\ ExtractOne(PairIx(workers[i]), PairRule(workers[i])).insert = None
              /\ ExtractOne(PairIx(workers[i]), PairRule(workers[i])).panic = NoPanic
              /\ workers'[i] # workers[i] =>
                    /\ workers'[i].k = workers[i].k + 1
                    /\ ix_accounts' = ix_accounts
                    /\ outcome' = outcome
                    /\ pc' = pc]_vars

\* The (instruction, rule) pairs worker w has gone through.
PairsDone(w) ==
    { <<w.ixs[(k \div Len(account_indices)) + 1], account_indices[(k % Len(account_indices)) + 1]>> :
        k \in 0..(w.k - 1) }

\* C11 witness: run() returned after its workers went through a positional rule on a
\* Structured instruction and a structured-field rule on a Positional instruction, and
\* the result holds the addresses of the pairings of the same shape only.
C11_Witness ==
    /\ pc = "done"
    /\ outcome = "Ok"
    /\ \E i \in DOMAIN workers : \E pr \in PairsDone(workers[i]) :
          pr[1].kind = "Parsed" /\ IsSome(pr[2].index)
    /\ \E i \in DOMAIN workers : \E pr \in PairsDone(workers[i]) :
          pr[1].kind = "PartiallyDecoded" /\ pr[2].index = None
    /\ DOMAIN ix_accounts = {"acct", "mint"}
    /\ ix_accounts["acct"] = {A}
    /\ ix_accounts["mint"] = {<<"M">>}

\* The (label, address) pairs worker w has inserted so far.
InsertedBy(w) ==
    { Unwrap(ExtractOne(pr[1], pr[2]).insert) :
        pr \in {q \in PairsDone(w) : IsSome(ExtractOne(q[1], q[2]).insert)} }

Inserted == UNION { InsertedBy(workers[i]) : i \in DOMAIN workers }

\* C12: whatever the interleaving of the workers, ix_accounts (the map run() returns)
\* holds for each label exactly the addresses some worker inserted under it: a label
\* exists once something was inserted under it, no inserted address is lost, and a pair
\* inserted by several workers is one entry of the set.
C12_ConcurrentAggregation ==
    /\ DOMAIN ix_accounts = {e.label : e \in Inserted}
    /\ \A l \in DOMAIN ix_accounts :
          ix_accounts[l] = {e.address : e \in {x \in Inserted : x.label = l}}

\* C12 witness: two workers, neither finished, have both inserted the same
\* (label, address) pair, and the label holds that address and another one.
C12_Witness ==
    \E i, j \in DOMAIN workers :
        /\ i # j
        /\ pc = "extract"
        /\ ~WorkerFinished(workers[i])
        /\ ~WorkerFinished(workers[j])
        /\ \E e \in InsertedBy(workers[i]) \cap InsertedBy(workers[j]) :
              /\ e.address \in ix_accounts[e.label]
              /\ Cardinality(ix_accounts[e.label]) = 2

\* C13: once a signature-listing call has failed, run() has returned the ClientError and
\* nothing else: it is not past the pagination, no fetch task was spawned, no
\* transaction was fetched and no address was collected.
C13_ListingErrorAborts ==
    (\E i \in DOMAIN calls : ~calls[i].ok) =>
        /\ pc = "done"
        /\ outcome = "ClientError"
        /\ ~Last(calls).ok
        /\ tx_tasks = <<>>
        /\ transactions = <<>>
        /\ ix_accounts = <<>>

\* C13 witness: the second listing call failed after a first page was collected.
C13_Witness ==
    /\ Len(calls) >= 2
    /\ calls[1].ok
    /\ ~Last(calls).ok
    /\ signatures # <<>>
    /\ outcome = "ClientError"

\* Some listing call returned a signature string that from_str rejects.
MalformedReturned ==
    \E i \in DOMAIN calls : \E j \in DOMAIN calls[i].sigs : ~ParsesOk(calls[i].sigs[j])

\* C14 (as claimed): when the gateway returned a malformed signature string at any
\* position of any page (and no listing call failed), the pagination ends with the
\* error value SignatureParseFailed.
C14_ParseFailureIsTypedError ==
    (pc \in {"fetch", "done"} /\ MalformedReturned /\ \A i \in DOMAIN calls : calls[i].ok)
        => outcome = "SignatureParseFailed"

\* run() returned a result for the three signatures of the history, every fetch
\* having succeeded.
RunCompleted ==
    /\ pc = "done"
    /\ outcome = "Ok"
    /\ Len(signatures) = 3
    /\ errors = <<>>

\* C15: end to end. With the success transaction filter, the program-id instruction
\* filter and the rules metadata@4, mint@5, a crawl over the three transactions (A with
\* one qualifying instruction on accounts [P, C, X, Y, M1, N1], B failed, C without an
\* instruction of the program) returns exactly {metadata: {M1}, mint: {N1}}.
C15_EndToEnd ==
    RunCompleted =>
        /\ DOMAIN ix_accounts = {"metadata", "mint"}
        /\ ix_accounts["metadata"] = {M1}
        /\ ix_accounts["mint"] = {N1}

\* C15 witness: the crawl completed over two pages, transaction A being the oldest of
\* the three, and all three transactions were fetched.
C15_Witness ==
    /\ RunCompleted
    /\ Len(calls) >= 2
    /\ Len(transactions) = 3
    /\ Len(filtered_transactions) = 2
    /\ ledger[3] = [RunBodies[1] EXCEPT !.sig = 3]
    /\ "mint" \in DOMAIN ix_accounts

\* C16 (as claimed): a transaction with more than one instruction that survives the
\* filters is not a fatal error: the crawl does not end without a result because of it.
C16_MultipleQualifyingNotFatal == outcome # "panic: Expected zero or one instruction"

\* C17 (as claimed): account_indices(v) adds rules. A rule registered by an earlier
\* add_account_index or account_indices call is still registered after any later
\* builder call, so that run() applies every rule that was passed.
C17_AccountIndicesAdds ==
    [][(pc = "build" /\ pc' = "build") =>
          \A i \in DOMAIN account_indices :
              \E j \in DOMAIN account_indices' : account_indices'[j] = account_indices[i]]_vars

\* A fetched record without its position in the list.
Body(tx) == [tx EXCEPT !.sig = 0]

\* What run() does with one transaction, whatever else is in the list: the
\* instructions it keeps, whether a filter, the flattening or a rule panics on it, and
\* the (label, address) pairs its rules yield.
KeptOf(tx) == FilteredInstructions(ix_filters, ix_or_filters, Flatten(tx).ixs)

PanicsOn(tx) ==
    \/ TxFiltersAll(tx_filters, tx) \notin {"pass", "reject"}
    \/ /\ TxFiltersAll(tx_filters, tx) = "pass"
       /\ \/ Flatten(tx).panic # NoPanic
          \/ \E n \in DOMAIN KeptOf(tx), r \in DOMAIN account_indices :
                ExtractOne(KeptOf(tx)[n], account_indices[r]).panic # NoPanic

YieldOf(tx) ==
    IF TxFiltersAll(tx_filters, tx) # "pass" THEN {}
    ELSE { Unwrap(ExtractOne(KeptOf(tx)[q[1]], account_indices[q[2]]).insert) :
             q \in { x \in (DOMAIN KeptOf(tx)) \X (DOMAIN account_indices) :
                       IsSome(ExtractOne(KeptOf(tx)[x[1]], account_indices[x[2]]).insert) } }

\* The label-to-addresses mapping of a set of (label, address) pairs.
MappingOf(pairs) ==
    [l \in {e.label : e \in pairs} |-> {e.address : e \in {x \in pairs : x.label = l}}]

\* C18: the result of run() depends on the set of fetched transactions only, not on
\* the order in which they are listed nor on the interleaving of the workers: run()
\* returns Ok exactly when no transaction of the set makes it panic, and the mapping
\* it returns is the union of what each transaction of the set yields.
C18_OrderIndependent ==
    pc = "done" =>
        LET txs == {Body(transactions[i]) : i \in DOMAIN transactions}
        IN  /\ outcome = "Ok" <=> \A tx \in txs : ~PanicsOn(tx)
            /\ outcome = "Ok" => ix_accounts = MappingOf(UNION {YieldOf(tx) : tx \in txs})

\* C18 witness: run() returned over two different transactions that contribute to one
\* label, the one listed second with an address the first does not yield.
C18_Witness ==
    /\ pc = "done"
    /\ outcome = "Ok"
    /\ Len(transactions) = 2
    /\ Len(filtered_transactions) = 2
    /\ \E e \in YieldOf(Body(transactions[2])), f \in YieldOf(Body(transactions[1])) :
          /\ e.label = f.label
          /\ e \notin YieldOf(Body(transactions[1]))
          /\ e # f
          /\ {e.address, f.address} \subseteq ix_accounts[e.label]

\* The listing call returned a non-empty page whose last entry parses: the page is
\* taken by the `match sigs.len()`.
PageTaken(c) == c.ok /\ c.sigs # <<>> /\ ParsesOk(Last(c.sigs))

\* The entries of the pages taken, in request order.
PagesTaken == Concat([i \in DOMAIN calls |-> IF PageTaken(calls[i]) THEN calls[i].sigs ELSE <<>>])

\* C19: every page taken is appended whole to the output. After a full page the walk
\* goes on and the next request carries the last (oldest) signature of that page as
\* `before`; after a shorter non-empty page no further request is issued. From one
\* request to the next the cursor moves to a strictly older entry of the history.
C19_CursorWalk ==
    /\ [i \in DOMAIN signatures |-> from_str(signatures[i])]
          = [i \in DOMAIN PagesTaken |-> from_str(PagesTaken[i])]
    /\ \A i \in DOMAIN calls :
          PageTaken(calls[i]) =>
              /\ (Len(calls[i].sigs) = PageLimit /\ i < Len(calls))
                    => calls[i + 1].before = from_str(Last(calls[i].sigs))
              /\ (Len(calls[i].sigs) = PageLimit /\ i = Len(calls))
                    => pc = "paginate" /\ before = from_str(Last(calls[i].sigs))
              /\ Len(calls[i].sigs) < PageLimit
                    => i = Len(calls) /\ pc # "paginate"
    /\ \A i \in 1..(Len(calls) - 1) :
          PositionOf(history, calls[i + 1].before) > PositionOf(history, calls[i].before)

\* C19 witness: a walk of two full pages and a short one has returned.
C19_Witness ==
    /\ pc = "fetch"
    /\ Len(calls) = 3
    /\ Len(calls[1].sigs) = PageLimit
    /\ Len(calls[2].sigs) = PageLimit
    /\ calls[3].sigs # <<>>
    /\ Len(calls[3].sigs) < PageLimit
    /\ Len(signatures) = Len(history)

\* get_all_signatures_for_id has returned, with the signatures or with an error.
WalkEnded == pc \notin {"paginate", "collect"}

\* C20: the pagination walk terminates, after at most one request per full page of the
\* history and one more. The requests that come back empty at the end of the walk are
\* at most MaxEmptyRetries, and a walk over a well-formed history that ends on an empty
\* page returns the signatures, not an error.
C20_WalkTerminates ==
    /\ <>WalkEnded
    /\ [](Len(calls) <= (Len(history) \div PageLimit) + 1)
    /\ [](TrailingEmpty(calls) <= MaxEmptyRetries)
    /\ []((WalkEnded /\ WellFormed(history) /\ calls # <<>> /\ Last(calls).ok
              /\ Last(calls).sigs = <<>>)
            => (pc = "fetch" /\ outcome = "running"))

\* C20 witness: the history is a whole number of full pages; the walk read them all,
\* got an empty page at the true end and returned every signature.
C20_Witness ==
    /\ pc = "fetch"
    /\ Len(history) = MaxPages * PageLimit
    /\ Len(calls) = MaxPages + 1
    /\ Last(calls).ok
    /\ Last(calls).sigs = <<>>
    /\ Len(signatures) = Len(history)

\* C21: the semaphore never leaks. The permits held (the limit minus the permits
\* available) are as many as the tasks spawned and not completed, whether the
\* completed ones succeeded or failed; once every task has completed, all the permits
\* are available again.
C21_PermitsNeverLeak ==
    /\ concurrency_limit - permits = Cardinality(InFlight)
    /\ (\A t \in DOMAIN tx_tasks : tx_tasks[t].res \in {"Ok", "Err"})
          => permits = concurrency_limit

\* C21 witness: with a single permit, two tasks ran one after the other, one failed
\* all its attempts and one succeeded, and the permit is available again.
C21_Witness ==
    /\ concurrency_limit = 1
    /\ Len(tx_tasks) = 2
    /\ \E t \in DOMAIN tx_tasks : tx_tasks[t].res = "Err"
    /\ \E t \in DOMAIN tx_tasks : tx_tasks[t].res = "Ok"
    /\ permits = 1

\* C22 (as claimed): a task issues at most 10 requests, the first attempt included,
\* and fails only after the 10th failed attempt.
C22_AtMostTenRequests ==
    \A t \in DOMAIN tx_tasks :
        /\ tx_tasks[t].tries <= FetchRetryDelays
        /\ tx_tasks[t].res = "Err" => tx_tasks[t].tries = FetchRetryDelays

\* C22 (amended): a task issues at most 11 requests, the first attempt and one more
\* after each of the 10 delays; it fails only after the 11th failed attempt, and it
\* issues no request after its first successful attempt.
C22_AtMostTenRetries ==
    /\ [](\A t \in DOMAIN tx_tasks :
            /\ tx_tasks[t].tries <= FetchRetryDelays + 1
            /\ tx_tasks[t].res = "Err" => tx_tasks[t].tries = FetchRetryDelays + 1
            /\ tx_tasks[t].res = "Ok" => tx_tasks[t].tries >= 1
            /\ tx_tasks[t].res = "pending" => tx_tasks[t].tries <= FetchRetryDelays)
    /\ [][\A t \in DOMAIN tx_tasks :
            tx_tasks[t].res \in {"Ok", "Err"} => tx_tasks'[t] = tx_tasks[t]]_vars

\* C22 witness: a fetch succeeded at its 11th attempt, after 10 failed ones.
C22_Witness ==
    \E t \in DOMAIN tx_tasks :
        tx_tasks[t].res = "Ok" /\ tx_tasks[t].tries = FetchRetryDelays + 1

\* The inner-instruction groups of a transaction (none without meta or without
\* inner_instructions).
GroupsOf(tx) ==
    IF IsSome(tx.meta) /\ IsSome(Unwrap(tx.meta).inner_instructions)
    THEN Unwrap(Unwrap(tx.meta).inner_instructions)
    ELSE <<>>

\* Number of instructions in the groups before group g.
RECURSIVE InnerBefore(_, _)
InnerBefore(groups, g) ==
    IF g <= 1 THEN 0 ELSE InnerBefore(groups, g - 1) + Len(groups[g - 1].instructions)

\* C23: the flattened sequence of a transaction holds its top-level instructions at
\* their positions, then the instructions of each inner group, group after group in
\* the order of the groups and in the order within the group, and nothing else: every
\* instruction appears exactly once. Without instruction filters this is the sequence
\* the worker goes through.
C23_FlattenOrder ==
    \A i \in DOMAIN workers :
        workers[i].stage = "extract" =>
            LET tx == filtered_transactions[i]
                top == tx.instructions
                groups == GroupsOf(tx)
                flat == FlatOf(i)
            IN  /\ Len(flat) = Len(top) + InnerBefore(groups, Len(groups) + 1)
                /\ \A j \in DOMAIN top : flat[j] = top[j]
                /\ \A g \in DOMAIN groups : \A q \in DOMAIN groups[g].instructions :
                      flat[Len(top) + InnerBefore(groups, g) + q] = groups[g].instructions[q]
                /\ (ix_filters = <<>> /\ ix_or_filters = <<>>) => workers[i].ixs = flat

\* C23 witness: a worker goes through the four instructions of a transaction with one
\* top-level instruction and two inner groups, all different.
C23_Witness ==
    \E i \in DOMAIN workers :
        /\ workers[i].stage = "extract"
        /\ Len(filtered_transactions[i].instructions) = 1
        /\ Len(GroupsOf(filtered_transactions[i])) = 2
        /\ Len(workers[i].ixs) = 4
        /\ Cardinality(Range(workers[i].ixs)) = 4

\* The transaction with its inner instructions moved to the top level, after the
\* top-level ones, and no inner instructions left.
Hoisted(tx) ==
    [tx EXCEPT !.instructions = tx.instructions \o InnerOf(tx),
               !.meta = IF IsSome(tx.meta)
                        THEN Some([Unwrap(tx.meta) EXCEPT !.inner_instructions = None])
                        ELSE tx.meta]

\* What the filters and the rules give on the top-level instructions of a transaction.
TopLevelKept(tx) == FilteredInstructions(ix_filters, ix_or_filters, tx.instructions)

TopLevelYield(tx) ==
    { Unwrap(ExtractOne(TopLevelKept(tx)[q[1]], account_indices[q[2]]).insert) :
        q \in { x \in (DOMAIN TopLevelKept(tx)) \X (DOMAIN account_indices) :
                  IsSome(ExtractOne(TopLevelKept(tx)[x[1]], account_indices[x[2]]).insert) } }

\* C24: inner instructions go through the same instruction filters and the same rules
\* as top-level ones: the instructions a worker keeps, and the mapping run() returns,
\* are those of the transactions with every inner instruction moved to the top level;
\* an inner instruction that is not in decoded form fails the run as a top-level one
\* does.
C24_InnerLikeTopLevel ==
    /\ \A i \in DOMAIN workers :
          workers[i].stage = "extract" =>
              workers[i].ixs = TopLevelKept(Hoisted(filtered_transactions[i]))
    /\ (pc = "done" /\ outcome = "Ok") =>
          ix_accounts = MappingOf(UNION { TopLevelYield(Hoisted(filtered_transactions[i])) :
                                            i \in DOMAIN filtered_transactions })
    /\ outcome = "panic: not a parsed instruction" =>
          \E i \in DOMAIN filtered_transactions :
              \E j \in DOMAIN Hoisted(filtered_transactions[i]).instructions :
                  Hoisted(filtered_transactions[i]).instructions[j].kind = "Compiled"

\* C24 witness: run() returned addresses of a transaction whose only instructions
\* that pass the filters are inner ones.
C24_Witness ==
    /\ pc = "done"
    /\ outcome = "Ok"
    /\ Len(filtered_transactions) = 1
    /\ TopLevelKept(filtered_transactions[1]) = <<>>
    /\ Len(workers[1].ixs) = 3
    /\ DOMAIN ix_accounts = {"acct", "mint"}

\* C25 (as claimed): when a worker applies a structured-field rule to a Structured
\* instruction it kept, a value at info/<name> is inserted under the rule's name, an
\* absent path inserts nothing, and in neither case does run() fail.
C25_StructuredFieldRule ==
    /\ outcome # "panic: unwrap on None"
    /\ \A i \in DOMAIN workers :
          ( /\ pc = "extract"
            /\ workers[i].stage = "extract"
            /\ workers[i].k < PairsOf(workers[i])
            /\ PairIx(workers[i]).kind = "Parsed"
            /\ PairRule(workers[i]).index = None )
          => LET ix == PairIx(workers[i])
                 a == PairRule(workers[i])
                 e == ExtractOne(ix, a)
             IN  /\ e.panic = NoPanic
                 /\ IF a.name \in DOMAIN ix.parsed.info
                    THEN IsSome(e.insert) /\ Unwrap(e.insert).label = a.name
                    ELSE e.insert = None

\* C26: every step leaves each (label, address) pair of the aggregate in place; run()
\* returns the mapping only when every worker has finished; and once run() has
\* returned the mapping does not change.
C26_MonotonicThenFrozen ==
    /\ [][\A l \in DOMAIN ix_accounts :
             l \in DOMAIN ix_accounts' /\ ix_accounts[l] \subseteq ix_accounts'[l]]_vars
    /\ [](outcome = "Ok" => \A i \in DOMAIN workers : WorkerFinished(workers[i]))
    /\ [][pc = "done" => ix_accounts' = ix_accounts]_vars

\* C26 witness: run() returned a mapping that two workers built up step by step, with
\* two labels and two addresses under one of them.
C26_Witness ==
    /\ pc = "done"
    /\ outcome = "Ok"
    /\ Len(workers) = 2
    /\ \A i \in DOMAIN workers : workers[i].k >= 2
    /\ Cardinality(DOMAIN ix_accounts) = 2
    /\ \E l \in DOMAIN ix_accounts : Cardinality(ix_accounts[l]) = 2

\* C27: in every state every label of the aggregate is the name of a configured rule
\* and maps to a non-empty set; in the mapping run() returns, a rule's name is a label
\* exactly when the rule resolved against an instruction that passed the filters, so
\* a run in which no instruction passed returns the empty mapping.
C27_LabelsAreResolvedRules ==
    /\ \A l \in DOMAIN ix_accounts :
          /\ \E r \in DOMAIN account_indices : account_indices[r].name = l
          /\ ix_accounts[l] # {}
    /\ (pc = "done" /\ outcome = "Ok") =>
          /\ \A r \in DOMAIN account_indices :
                account_indices[r].name \in DOMAIN ix_accounts
                  <=> \E i \in DOMAIN workers : \E n \in DOMAIN workers[i].ixs :
                         IsSome(ExtractOne(workers[i].ixs[n], account_indices[r]).insert)
          /\ (\A i \in DOMAIN workers : workers[i].ixs = <<>>) => ix_accounts = <<>>

\* C27 witness: run() returned a mapping with an entry for one of two configured rules
\* and none for the other, which met a Structured instruction without its field.
C27_Witness ==
    /\ pc = "done"
    /\ outcome = "Ok"
    /\ DOMAIN ix_accounts = {"acct"}
    /\ \E r \in DOMAIN account_indices :
          /\ account_indices[r] = parsed("mint")
          /\ \E i \in DOMAIN workers : \E n \in DOMAIN workers[i].ixs :
                /\ workers[i].ixs[n].kind = "Parsed"
                /\ "mint" \notin DOMAIN workers[i].ixs[n].parsed.info

\* C28: with a concurrency limit of at least 1 the fetch stage ends; with a limit of 0
\* and at least one signature no permit is ever granted, no task is spawned, no
\* request is made and run() stays in the fetch stage for ever.
C28_FetchTerminatesUnlessNoPermit ==
    /\ (concurrency_limit >= 1) => <>(pc # "fetch")
    /\ [](concurrency_limit >= 1 =>
            \A t \in DOMAIN tx_tasks : tx_tasks[t].tries <= FetchRetryDelays + 1)
    /\ []((concurrency_limit = 0 /\ Len(signatures) >= 1)
            => (pc = "fetch" /\ outcome = "running" /\ permits = 0 /\ tx_tasks = <<>>))

\* C28 witness: with one permit, the stage ended after both tasks, one after the
\* other, had used up every attempt.
C28_Witness ==
    /\ concurrency_limit = 1
    /\ pc = "filter"
    /\ Len(signatures) = MaxSigs
    /\ joined = MaxSigs
    /\ \A t \in DOMAIN tx_tasks :
          tx_tasks[t].res = "Err" /\ tx_tasks[t].tries = FetchRetryDelays + 1

\* Some configured transaction filter returns false on tx.
Rejected(tx) ==
    \E f \in DOMAIN tx_filters :
        TxFilterPanic(tx_filters[f], tx) = NoPanic /\ ~TxFilter(tx_filters[f], tx)

\* C29: a transaction on which some transaction filter returns false is not among the
\* transactions handed to the workers, so it is never flattened; every address of the
\* returned mapping is yielded by a transaction no filter rejected; and a panic in the
\* extraction phase is the panic of flattening, or of a rule on, a transaction no
\* filter rejected.
C29_RejectedNeverDecoded ==
    /\ [](/\ DOMAIN workers = DOMAIN filtered_transactions
          /\ \A i \in DOMAIN filtered_transactions :
                /\ ~Rejected(filtered_transactions[i])
                /\ \E j \in DOMAIN transactions : transactions[j] = filtered_transactions[i])
    /\ []((pc = "done" /\ outcome = "Ok") =>
            \A l \in DOMAIN ix_accounts : \A x \in ix_accounts[l] :
                \E j \in DOMAIN transactions :
                    /\ ~Rejected(transactions[j])
                    /\ [label |-> l, address |-> x] \in YieldOf(transactions[j]))
    /\ [][(pc = "extract" /\ pc' = "done" /\ outcome' # "Ok") =>
            \E j \in DOMAIN transactions :
                /\ ~Rejected(transactions[j])
                /\ \/ Flatten(transactions[j]).panic = outcome'
                   \/ \E n \in DOMAIN KeptOf(transactions[j]), r \in DOMAIN account_indices :
                         ExtractOne(KeptOf(transactions[j])[n], account_indices[r]).panic
                           = outcome']_vars

\* C29 witness: run() returned Ok with the address of an accepted transaction, while
\* the other fetched transaction, which is not even Json-encoded, was rejected by the
\* filter.
C29_Witness ==
    /\ pc = "done"
    /\ outcome = "Ok"
    /\ Len(transactions) = 2
    /\ Len(filtered_transactions) = 1
    /\ \E j \in DOMAIN transactions :
          Rejected(transactions[j]) /\ transactions[j].enc # "Json"
    /\ ix_accounts # <<>>

====
